---- MODULE Spec2Model ----
(***************************************************************************)
(* Model of the tile-resolution engine of open-elevation                   *)
(* (src/gdal_interfaces.py): GDALInterface (one raster tile),              *)
(* GDALTileInterface (catalog, spatial index, LRU pool of open tiles).     *)
(*                                                                         *)
(* Coordinates are fixed-point: the integer c stands for c / Scale degrees *)
(* so that the truncation int() of the code is visible.  Every raster is   *)
(* north-up, one degree per pixel, stored in WGS84, RasterXSize columns by *)
(* RasterYSize rows; the tiles lie side by side along the longitude axis   *)
(* and neighbours share an edge, as real elevation tiles do.               *)
(***************************************************************************)
EXTENDS Integers, Sequences, FiniteSets

\* ---------------------------------------------------------------- bounds
NumPaths == 3
MaxCap == 2
MaxInstances == 3
Scale == 2
RasterXSize == 2
RasterYSize == 1
NumThreads == 2
MaxCatalog == 2

\* ------------------------------------------------------ program constants
SEA_LEVEL == 0
NoData == -32768

Paths == 1..NumPaths
Caps == 0..MaxCap
Threads == 1..NumThreads
MaxLat == (RasterYSize + 1) * Scale
MaxLng == MaxCatalog * RasterXSize * Scale
Lats == 0..MaxLat
Lngs == 0..MaxLng

VARIABLES
    open_interfaces_size,         \* capacity N of the pool
    cache_all,                    \* fully-cached mode
    cached_open_interfaces,       \* recency list of paths, MRU last
    cached_open_interfaces_dict,  \* path -> instance id
    interfaces,                   \* every GDALInterface ever built: id -> fields
    files,                        \* state of each raster file on disk
    all_coords,                   \* catalog: the paths it describes
    recency,                      \* history: paths by last successful acquire
    last,                         \* the operation that just completed
    serialized,                   \* worker dispatches one lookup at a time
    pc, treq, tfile, tiface, tout \* per-thread position in lookup

cacheVars == <<cached_open_interfaces, cached_open_interfaces_dict, interfaces>>
confVars == <<open_interfaces_size, cache_all, all_coords, serialized>>
threadVars == <<pc, treq, tfile, tiface, tout>>
vars == <<open_interfaces_size, cache_all, cached_open_interfaces,
          cached_open_interfaces_dict, interfaces, files, all_coords,
          recency, last, serialized, pc, treq, tfile, tiface, tout>>

\* ------------------------------------------------------------- sequences
Range(s) == {s[i] : i \in DOMAIN s}
Remove(s, x) == SelectSeq(s, LAMBDA y : y # x)
NoDup(s) == \A i, j \in DOMAIN s : i # j => s[i] # s[j]

\* Python's int(): truncation toward zero of a / b, b > 0.
Trunc(a, b) == IF a >= 0 THEN a \div b ELSE -((-a) \div b)

\* ------------------------------------------------------- raster contents
\* The geotransform stored in the file of `path`.
FileGeoTransform(path, state) ==
    <<(path - 1) * RasterXSize * Scale,
      IF state = "singular" THEN 0 ELSE 1,
      0,
      RasterYSize * Scale,
      0,
      -1>>

\* Band 1 of the file: one no-data cell, every other sample a distinct
\* non-zero elevation.
Grid(path) ==
    [ylin \in 0..(RasterYSize - 1) |->
        [xpix \in 0..(RasterXSize - 1) |->
            IF ylin = 0 /\ xpix = RasterXSize - 1
            THEN NoData
            ELSE 100 * path + 10 * ylin + xpix + 1]]

\* gt[1] * gt[5] - gt[2] * gt[4] of loadMetadata (tuples are 1-based here).
Dev(gt) == gt[2] * gt[6] - gt[3] * gt[5]

GeoTransformInv(gt) ==
    <<gt[1], gt[6] \div Dev(gt), (-gt[3]) \div Dev(gt),
      gt[4], (-gt[5]) \div Dev(gt), gt[2] \div Dev(gt)>>

\* GDALInterface.__init__ / loadMetadata raise: gdal.Open gave None, or the
\* division by a zero determinant.
LoadMetadataRaises(path) ==
    \/ files[path] = "missing"
    \/ Dev(FileGeoTransform(path, files[path])) = 0

\* A freshly built GDALInterface: handle open, points_array not yet read.
NewInterface(path) ==
    [tif_path |-> path,
     src |-> TRUE,
     points_loaded |-> FALSE,
     geo_transform_inv |-> GeoTransformInv(FileGeoTransform(path, files[path]))]

\* GDALInterface.close
M_CloseNothing(ifs, id) == ifs
Close(ifs, id) == [ifs EXCEPT ![id].src = FALSE]

\* ------------------------------------------------------- raster lookup
\* coordinate_transform.TransformPoint(lon, lat, 0) for a raster stored in
\* WGS84: source and target reference systems are the same.
TransformPoint(lon, lat) == <<lon, lat>>

\* lines 84-88 and 104-108: inverse geotransform, then int()
M_PixelOfRounded(inv, xgeo, ygeo) ==
    LET u == xgeo - inv[1]
        v == ygeo - inv[4]
    IN  [xpix |-> (2 * (inv[2] * u + inv[3] * v) + Scale) \div (2 * Scale),
         ylin |-> (2 * (inv[5] * u + inv[6] * v) + Scale) \div (2 * Scale)]
PixelOf(inv, xgeo, ygeo) ==
    LET u == xgeo - inv[1]
        v == ygeo - inv[4]
    IN  [xpix |-> Trunc(inv[2] * u + inv[3] * v, Scale),
         ylin |-> Trunc(inv[5] * u + inv[6] * v, Scale)]

\* numpy's index along one axis of length n: negative indices count from
\* the end, anything else outside 0..n-1 raises IndexError (-1 here).
NumpyIndex(i, n) ==
    IF i >= 0 /\ i < n THEN i
    ELSE IF i < 0 /\ i >= -n THEN i + n
    ELSE -1

\* lines 91-93 and 111-112: array[ylin, xpix], no-data mapped to SEA_LEVEL;
\* an IndexError is caught by the except clause.
ReadSample(array, px) ==
    LET row == NumpyIndex(px.ylin, RasterYSize)
        col == NumpyIndex(px.xpix, RasterXSize)
    IN  IF row = -1 \/ col = -1
        THEN SEA_LEVEL
        ELSE IF array[row][col] # NoData THEN array[row][col] ELSE SEA_LEVEL

\* GDALInterface.lookup on instance `id`.  points_array is lazy: the first
\* access reads band 1 through src and keeps the array; with src closed
\* (None) and no array kept, the access raises and lookup returns SEA_LEVEL.
InterfaceLookup(ifs, id, lat, lon) ==
    LET geo == TransformPoint(lon, lat)
        px == PixelOf(ifs[id].geo_transform_inv, geo[1], geo[2])
    IN  IF ~ifs[id].points_loaded /\ ~ifs[id].src
        THEN [value |-> SEA_LEVEL, ifs |-> ifs, stale |-> TRUE]
        ELSE [value |-> ReadSample(Grid(ifs[id].tif_path), px),
              ifs |-> [ifs EXCEPT ![id].points_loaded = TRUE],
              stale |-> FALSE]

\* GDALInterface.lookup_cache on the instance _build_index made for `path`
\* (load_all: cache_array holds band 1, the handle is closed).
LookupCache(path, lat, lon) ==
    LET px == PixelOf(GeoTransformInv(FileGeoTransform(path, "ok")), lon, lat)
    IN  ReadSample(Grid(path), px)

\* ------------------------------------------------- catalog and index
\* get_corner_coords
CornerCoords(path) ==
    LET gt == FileGeoTransform(path, "ok")
        lrx == gt[1] + RasterXSize * gt[2] * Scale
        lry == gt[4] + RasterYSize * gt[6] * Scale
    IN  [TOP_LEFT |-> <<gt[1], gt[4]>>, TOP_RIGHT |-> <<lrx, gt[4]>>,
         BOTTOM_LEFT |-> <<gt[1], lry>>, BOTTOM_RIGHT |-> <<lrx, lry>>]

\* create_summary_json: (lmin, lmax, lngmin, lngmax)
Coords(path) ==
    LET c == CornerCoords(path)
    IN  <<c.BOTTOM_RIGHT[2], c.TOP_RIGHT[2], c.TOP_LEFT[1], c.TOP_RIGHT[1]>>

\* _build_index inserts (left, bottom, right, top) = (lmin, lngmin, lmax,
\* lngmax); index.intersection((lat, lng)) matches closed boxes.
IndexIntersection(lat, lng) ==
    {p \in all_coords :
        LET left == Coords(p)[1]
            bottom == Coords(p)[3]
            right == Coords(p)[2]
            top == Coords(p)[4]
        IN  left <= lat /\ lat <= right /\ bottom <= lng /\ lng <= top}

\* ------------------------------------------------------------ tile pool
\* line 161: the test that triggers eviction
M_NeedsEvictLate(list) == Len(list) > open_interfaces_size + 1
NeedsEvict(list) == Len(list) > open_interfaces_size

\* lines 151-152: remove(path) then += [path]
M_TouchNothing(list, path) == list
Touch(list, path) == Append(Remove(list, path), path)

\* line 162: pop(0) names the victim
VictimIndex(list) == 1

\* lines 166-167: the victim leaves the mapping
M_DelNothing(dict, path) == dict
DelEntry(dict, path) == [p \in (DOMAIN dict) \ {path} |-> dict[p]]

PutEntry(dict, path, id) ==
    [p \in (DOMAIN dict) \cup {path} |-> IF p = path THEN id ELSE dict[p]]

\* lines 149-154
CacheHit(path) ==
    [list |-> Touch(cached_open_interfaces, path),
     dict |-> cached_open_interfaces_dict,
     ifs |-> interfaces,
     raised |-> FALSE,
     hit |-> TRUE,
     ret |-> cached_open_interfaces_dict[path],
     evicted |-> 0]

Unchanged(path) ==
    [list |-> cached_open_interfaces,
     dict |-> cached_open_interfaces_dict,
     ifs |-> interfaces,
     raised |-> TRUE,
     hit |-> FALSE,
     ret |-> 0,
     evicted |-> 0]

\* lines 158-169, once the constructor has returned
Insert(path) ==
    LET id == Len(interfaces) + 1
        ifs1 == Append(interfaces, NewInterface(path))
        list1 == cached_open_interfaces \o <<path>>
        dict1 == PutEntry(cached_open_interfaces_dict, path, id)
    IN  IF NeedsEvict(list1)
        THEN LET k == VictimIndex(list1)
                 last_interface_path == list1[k]
                 last_interface == dict1[last_interface_path]
             IN  [list |-> SubSeq(list1, 1, k - 1) \o SubSeq(list1, k + 1, Len(list1)),
                  dict |-> DelEntry(dict1, last_interface_path),
                  ifs |-> Close(ifs1, last_interface),
                  raised |-> FALSE,
                  hit |-> FALSE,
                  ret |-> id,
                  evicted |-> last_interface_path]
        ELSE [list |-> list1,
              dict |-> dict1,
              ifs |-> ifs1,
              raised |-> FALSE,
              hit |-> FALSE,
              ret |-> id,
              evicted |-> 0]

\* lines 155-169: the constructor runs first and may raise
M_CacheMissInsertFirst(path) ==
    IF LoadMetadataRaises(path)
    THEN [Unchanged(path) EXCEPT !.list = cached_open_interfaces \o <<path>>]
    ELSE Insert(path)
CacheMiss(path) ==
    IF LoadMetadataRaises(path) THEN Unchanged(path) ELSE Insert(path)

\* GDALTileInterface._open_gdal_interface
OpenGdalInterface(path) ==
    IF path \in DOMAIN cached_open_interfaces_dict
    THEN CacheHit(path)
    ELSE CacheMiss(path)

\* A miss whose open succeeds builds an instance; the model stops building
\* at MaxInstances.
CanRun(path) ==
    \/ path \in DOMAIN cached_open_interfaces_dict
    \/ LoadMetadataRaises(path)
    \/ Len(interfaces) < MaxInstances

NoLast ==
    [op |-> "none", path |-> 0, lat |-> 0, lng |-> 0, raised |-> FALSE,
     hit |-> FALSE, ret |-> 0, evicted |-> 0, result |-> 0]

\* ------------------------------------------------------------- actions
Acquire(path) ==
    /\ CanRun(path)
    /\ LET r == OpenGdalInterface(path)
       IN  /\ cached_open_interfaces' = r.list
           /\ cached_open_interfaces_dict' = r.dict
           /\ interfaces' = r.ifs
           /\ recency' = IF r.raised THEN recency ELSE Append(Remove(recency, path), path)
           /\ last' = [NoLast EXCEPT !.op = "acquire", !.path = path,
                                     !.raised = r.raised, !.hit = r.hit,
                                     !.ret = r.ret, !.evicted = r.evicted]
    /\ UNCHANGED <<confVars, files, threadVars>>

\* The environment replaces or deletes a raster file.
ReplaceFile(path, state) ==
    /\ files[path] = "ok"
    /\ files' = [files EXCEPT ![path] = state]
    /\ last' = [NoLast EXCEPT !.op = "env", !.path = path]
    /\ UNCHANGED <<confVars, cacheVars, recency, threadVars>>

InitCommon ==
    /\ cached_open_interfaces = <<>>
    /\ cached_open_interfaces_dict = <<>>
    /\ interfaces = <<>>
    /\ files = [p \in Paths |-> "ok"]
    /\ recency = <<>>
    /\ last = NoLast
    /\ pc = [t \in Threads |-> "idle"]
    /\ treq = [t \in Threads |-> <<0, 0>>]
    /\ tfile = [t \in Threads |-> 0]
    /\ tiface = [t \in Threads |-> 0]
    /\ tout = [t \in Threads |-> [result |-> 0, raised |-> FALSE, stale |-> FALSE]]

\* The pool alone, driven by acquire calls.
Init ==
    /\ InitCommon
    /\ open_interfaces_size \in Caps
    /\ cache_all = FALSE
    /\ all_coords = Paths
    /\ serialized = TRUE

Next ==
    \/ \E path \in Paths : Acquire(path)
    \/ \E path \in Paths, state \in {"missing", "singular"} : ReplaceFile(path, state)

Spec == Init /\ [][Next]_vars

\* GDALTileInterface.lookup.  nearest[0] is whichever match the index
\* enumerates first: any of them.
Lookup(lat, lng) ==
    LET nearest == IndexIntersection(lat, lng)
    IN  \/ /\ nearest = {}
           /\ last' = [NoLast EXCEPT !.op = "lookup", !.lat = lat, !.lng = lng,
                                     !.result = SEA_LEVEL]
           /\ UNCHANGED <<confVars, cacheVars, files, recency, threadVars>>
        \/ \E file \in nearest :
              /\ ~cache_all
              /\ CanRun(file)
              /\ LET r == OpenGdalInterface(file)
                     v == InterfaceLookup(r.ifs, r.ret, lat, lng)
                 IN  IF r.raised
                     THEN /\ last' = [NoLast EXCEPT !.op = "lookup", !.path = file,
                                                    !.lat = lat, !.lng = lng,
                                                    !.raised = TRUE]
                          /\ UNCHANGED cacheVars
                     ELSE /\ cached_open_interfaces' = r.list
                          /\ cached_open_interfaces_dict' = r.dict
                          /\ interfaces' = v.ifs
                          /\ last' = [NoLast EXCEPT !.op = "lookup", !.path = file,
                                                    !.lat = lat, !.lng = lng,
                                                    !.hit = r.hit, !.ret = r.ret,
                                                    !.evicted = r.evicted,
                                                    !.result = v.value]
              /\ UNCHANGED <<confVars, files, recency, threadVars>>
        \/ \E file \in nearest :
              /\ cache_all
              /\ last' = [NoLast EXCEPT !.op = "lookup", !.path = file,
                                        !.lat = lat, !.lng = lng,
                                        !.result = LookupCache(file, lat, lng)]
              /\ UNCHANGED <<confVars, cacheVars, files, recency, threadVars>>

\* GDALInterface.lookup called on a pooled instance.
RasterLookup(path, lat, lng) ==
    /\ ~cache_all
    /\ path \in DOMAIN cached_open_interfaces_dict
    /\ LET id == cached_open_interfaces_dict[path]
           v == InterfaceLookup(interfaces, id, lat, lng)
       IN  /\ interfaces' = v.ifs
           /\ last' = [NoLast EXCEPT !.op = "raster_lookup", !.path = path,
                                     !.lat = lat, !.lng = lng, !.ret = id,
                                     !.result = v.value]
    /\ UNCHANGED <<confVars, cached_open_interfaces, cached_open_interfaces_dict,
                   files, recency, threadVars>>

\* GDALInterface.lookup_cache called on a fully-cached instance.
RasterLookupCache(path, lat, lng) ==
    /\ cache_all
    /\ path \in all_coords
    /\ last' = [NoLast EXCEPT !.op = "raster_lookup", !.path = path,
                              !.lat = lat, !.lng = lng,
                              !.result = LookupCache(path, lat, lng)]
    /\ UNCHANGED <<confVars, cacheVars, files, recency, threadVars>>

\* The resolver: a catalog, its index, and lookups against them.
InitLookup ==
    /\ InitCommon
    /\ open_interfaces_size \in Caps
    /\ cache_all \in BOOLEAN
    /\ all_coords \in {1..n : n \in 1..MaxCatalog}
    /\ serialized = TRUE

NextLookup ==
    \/ \E lat \in Lats, lng \in Lngs : Lookup(lat, lng)
    \/ \E path \in all_coords : ReplaceFile(path, "missing")

SpecLookup == InitLookup /\ [][NextLookup]_vars

\* The resolver over a catalog of exactly one tile.
InitSingle ==
    /\ InitCommon
    /\ open_interfaces_size \in Caps
    /\ cache_all \in BOOLEAN
    /\ all_coords \in {{p} : p \in 1..MaxCatalog}
    /\ serialized = TRUE

SpecSingle == InitSingle /\ [][NextLookup]_vars

\* One tile at a time: tiles are opened through the pool (or pre-loaded in
\* fully-cached mode) and their lookup methods are called directly.
NextRaster ==
    \/ \E path \in all_coords : Acquire(path)
    \/ \E path \in all_coords, lat \in Lats, lng \in Lngs : RasterLookup(path, lat, lng)
    \/ \E path \in all_coords, lat \in Lats, lng \in Lngs : RasterLookupCache(path, lat, lng)

SpecRaster == InitLookup /\ [][NextRaster]_vars

\* ------------------------------------------------ lookup, thread by thread
\* What a thread holds between two of the statements of
\* GDALTileInterface.lookup.
Idle == [result |-> 0, raised |-> FALSE, stale |-> FALSE]

\* The requests served: one point inside the lower-left cell of each tile,
\* and one point no tile covers.
ReqPoints ==
    {<<Coords(p)[1] + 1, Coords(p)[3] + 1>> : p \in 1..MaxCatalog} \cup {<<MaxLat, 0>>}

\* The worker dispatches one lookup at a time.
M_MayStartAlways(t) == TRUE
MayStart(t) ==
    serialized => \A u \in Threads \ {t} : pc[u] \in {"idle", "done"}

\* lines 211-215: the index query and the choice of nearest[0]
T_Query(t, pt) ==
    /\ pc[t] = "idle"
    /\ MayStart(t)
    /\ treq' = [treq EXCEPT ![t] = pt]
    /\ LET nearest == IndexIntersection(pt[1], pt[2])
       IN  \/ /\ nearest = {}
              /\ pc' = [pc EXCEPT ![t] = "done"]
              /\ tout' = [tout EXCEPT ![t] = [Idle EXCEPT !.result = SEA_LEVEL]]
              /\ UNCHANGED tfile
           \/ \E file \in nearest :
                 /\ pc' = [pc EXCEPT ![t] = "queried"]
                 /\ tfile' = [tfile EXCEPT ![t] = file]
                 /\ UNCHANGED tout
    /\ UNCHANGED <<confVars, cacheVars, files, recency, last, tiface>>

\* line 217: gdal_interface = self._open_gdal_interface(coords['file'])
T_Acquire(t) ==
    /\ pc[t] = "queried"
    /\ CanRun(tfile[t])
    /\ LET r == OpenGdalInterface(tfile[t])
       IN  /\ cached_open_interfaces' = r.list
           /\ cached_open_interfaces_dict' = r.dict
           /\ interfaces' = r.ifs
           /\ IF r.raised
              THEN /\ pc' = [pc EXCEPT ![t] = "done"]
                   /\ tout' = [tout EXCEPT ![t] = [Idle EXCEPT !.raised = TRUE]]
                   /\ UNCHANGED tiface
              ELSE /\ pc' = [pc EXCEPT ![t] = "acquired"]
                   /\ tiface' = [tiface EXCEPT ![t] = r.ret]
                   /\ UNCHANGED tout
    /\ UNCHANGED <<confVars, files, recency, last, treq, tfile>>

\* line 218: return int(gdal_interface.lookup(lat, lng))
T_Read(t) ==
    /\ pc[t] = "acquired"
    /\ LET v == InterfaceLookup(interfaces, tiface[t], treq[t][1], treq[t][2])
       IN  /\ interfaces' = v.ifs
           /\ tout' = [tout EXCEPT ![t] = [result |-> v.value, raised |-> FALSE,
                                           stale |-> v.stale]]
    /\ pc' = [pc EXCEPT ![t] = "done"]
    /\ UNCHANGED <<confVars, cached_open_interfaces, cached_open_interfaces_dict,
                   files, recency, last, treq, tfile, tiface>>

\* The request is answered; the thread takes the next one.
T_Return(t) ==
    /\ pc[t] = "done"
    /\ pc' = [pc EXCEPT ![t] = "idle"]
    /\ treq' = [treq EXCEPT ![t] = <<0, 0>>]
    /\ tfile' = [tfile EXCEPT ![t] = 0]
    /\ tiface' = [tiface EXCEPT ![t] = 0]
    /\ tout' = [tout EXCEPT ![t] = Idle]
    /\ UNCHANGED <<confVars, cacheVars, files, recency, last>>

\* One worker, its threads running lookup with no lock (serialized = FALSE)
\* or one request at a time (serialized = TRUE).
InitConc ==
    /\ InitCommon
    /\ open_interfaces_size \in Caps
    /\ cache_all = FALSE
    /\ all_coords = 1..MaxCatalog
    /\ serialized \in BOOLEAN

NextConc ==
    \/ \E t \in Threads, pt \in ReqPoints : T_Query(t, pt)
    \/ \E t \in Threads : T_Acquire(t)
    \/ \E t \in Threads : T_Read(t)
    \/ \E t \in Threads : T_Return(t)

SpecConc == InitConc /\ [][NextConc]_vars

\* ------------------------------------------------------- claims: the pool
Keys == DOMAIN cached_open_interfaces_dict

\* A step that completes an acquire (normally or by raising).
AcquireStep == last'.op = "acquire"

\* C1: with capacity N >= 1 the path->tile mapping never holds more than N
\* entries, after any sequence of acquire calls.
C1_SizeAtMostCapacity ==
    open_interfaces_size >= 1 => Cardinality(Keys) <= open_interfaces_size

C1_Witness ==
    /\ last.op = "acquire"
    /\ last.evicted # 0
    /\ open_interfaces_size = MaxCap
    /\ Cardinality(Keys) = open_interfaces_size

\* C2: an acquire that evicts removes exactly one entry, the one whose most
\* recent successful acquire is the oldest among the entries then held (the
\* path just inserted counts as the newest); every other entry stays.
C2_EvictsLeastRecentlyAcquired ==
    [][(AcquireStep /\ last'.evicted # 0) =>
          LET held == Keys \cup {last'.path}
              byAge == SelectSeq(recency', LAMBDA p : p \in held)
          IN  /\ ~last'.hit
              /\ last'.path \notin Keys
              /\ last'.evicted = byAge[1]
              /\ DOMAIN cached_open_interfaces_dict' = held \ {last'.evicted}]_vars

\* p1, p2, p1 again, then p3 with N = 2: p2 is evicted, p1 stays.
C2_Witness ==
    /\ open_interfaces_size = 2
    /\ recency = <<2, 1, 3>>
    /\ last.op = "acquire" /\ last.path = 3 /\ last.evicted = 2
    /\ Keys = {1, 3}

\* C3: an eviction closes the victim's handle and removes its path from the
\* mapping; a miss returns an instance that did not exist before (so never
\* a closed one); a hit returns the instance held, and builds nothing.
C3_EvictClosesAndReopenIsFresh ==
    [][(AcquireStep /\ ~last'.raised) =>
          /\ last'.evicted # 0 =>
                LET victim == IF last'.evicted = last'.path
                              THEN last'.ret
                              ELSE cached_open_interfaces_dict[last'.evicted]
                IN  /\ ~interfaces'[victim].src
                    /\ last'.evicted \notin DOMAIN cached_open_interfaces_dict'
          /\ last'.hit =>
                /\ last'.path \in Keys
                /\ last'.ret = cached_open_interfaces_dict[last'.path]
                /\ interfaces' = interfaces
                /\ last'.evicted = 0
          /\ ~last'.hit =>
                /\ last'.path \notin Keys
                /\ last'.ret \notin DOMAIN interfaces
                /\ last'.ret \in DOMAIN interfaces'
                /\ interfaces'[last'.ret].tif_path = last'.path
                /\ \A id \in DOMAIN interfaces :
                      interfaces'[id].tif_path = interfaces[id].tif_path]_vars

\* A path evicted earlier (its old instance is closed) has been acquired
\* again and came back as a new, open instance.
C3_Witness ==
    /\ last.op = "acquire" /\ ~last.raised /\ ~last.hit
    /\ interfaces[last.ret].src
    /\ \E id \in DOMAIN interfaces :
          /\ id < last.ret
          /\ interfaces[id].tif_path = last.path
          /\ ~interfaces[id].src

\* C7 (as stated): when acquire(path) returns, path is in the mapping, is the
\* last element of the recency list, and the returned handle is open, for
\* every capacity the constructor accepts.
C7_ReturnedEntryIsCachedAndOpen ==
    (last.op = "acquire" /\ ~last.raised) =>
        /\ last.path \in Keys
        /\ cached_open_interfaces # <<>>
        /\ cached_open_interfaces[Len(cached_open_interfaces)] = last.path
        /\ interfaces[last.ret].src

\* C9: the recency list has no duplicate and lists exactly the keys of the
\* mapping.
C9_ListMatchesMapping ==
    /\ NoDup(cached_open_interfaces)
    /\ Range(cached_open_interfaces) = Keys

C9_Witness ==
    /\ last.op = "acquire" /\ last.raised
    /\ Len(cached_open_interfaces) = 2
    /\ \E id \in DOMAIN interfaces : ~interfaces[id].src

\* C10: a miss whose open fails raises out of acquire and leaves the list,
\* the mapping and every instance as they were; the path is not inserted.
C10_FailedOpenLeavesCacheUntouched ==
    [][(AcquireStep /\ last'.path \notin Keys /\ LoadMetadataRaises(last'.path)) =>
          /\ last'.raised
          /\ UNCHANGED cacheVars
          /\ last'.path \notin DOMAIN cached_open_interfaces_dict'
          /\ last'.path \notin Range(cached_open_interfaces')]_vars

C10_Witness ==
    /\ last.op = "acquire" /\ last.raised
    /\ cached_open_interfaces # <<>>
    /\ last.path \notin Keys

\* --------------------------------------------------- claims: the lookups
\* The tile of a one-tile catalog, and its box (latMin, latMax, lngMin,
\* lngMax) as the catalog records it.
OnlyTile == CHOOSE p \in all_coords : TRUE
LatMin(p) == Coords(p)[1]
LatMax(p) == Coords(p)[2]
LngMin(p) == Coords(p)[3]
LngMax(p) == Coords(p)[4]

InBox(p, lat, lng) ==
    LatMin(p) <= lat /\ lat <= LatMax(p) /\ LngMin(p) <= lng /\ lng <= LngMax(p)

\* Half-open in the way the grid is: top and left edges in, bottom and
\* right edges out.
InCells(p, lat, lng) ==
    LatMin(p) < lat /\ lat <= LatMax(p) /\ LngMin(p) <= lng /\ lng < LngMax(p)

\* The stored sample of the cell holding (lat, lng): whole degrees east of
\* the left edge and south of the top edge; no-data reads as SEA_LEVEL.
StoredSample(p, lat, lng) ==
    LET v == Grid(p)[(LatMax(p) - lat) \div Scale][(lng - LngMin(p)) \div Scale]
    IN  IF v = NoData THEN SEA_LEVEL ELSE v

\* The lookup found no tile, or read one that could be read: fully-cached,
\* or handed out by a pool of capacity N >= 1.
ReadOpenTile ==
    \/ cache_all
    \/ last.path = 0
    \/ ~last.raised /\ open_interfaces_size >= 1

\* C4 (as stated): GDALTileInterface.lookup never raises outward.
C4_LookupNeverRaises ==
    last.op = "lookup" => ~last.raised

\* C5 (as stated): GDALInterface.lookup and lookup_cache return SEA_LEVEL
\* whenever a truncated pixel index lies outside the grid.
C5_OutOfGridIsSeaLevel ==
    last.op = "raster_lookup" =>
        LET px == PixelOf(GeoTransformInv(FileGeoTransform(last.path, "ok")),
                          last.lng, last.lat)
        IN  (\/ px.xpix < 0 \/ px.xpix >= RasterXSize
             \/ px.ylin < 0 \/ px.ylin >= RasterYSize) => last.result = SEA_LEVEL

\* C6 (as stated): with a one-tile catalog, every point the index matches,
\* box edges included, yields the stored sample of its pixel and never the
\* out-of-grid fallback.
C6_EveryMatchedPointReadsItsSample ==
    (last.op = "lookup" /\ Cardinality(all_coords) = 1 /\ ReadOpenTile
       /\ InBox(OnlyTile, last.lat, last.lng)) =>
        LET px == PixelOf(GeoTransformInv(FileGeoTransform(OnlyTile, "ok")),
                          last.lng, last.lat)
        IN  /\ px.xpix \in 0..(RasterXSize - 1)
            /\ px.ylin \in 0..(RasterYSize - 1)
            /\ last.result = StoredSample(OnlyTile, last.lat, last.lng)

\* C6 (amended): with a one-tile catalog, a lookup that reads an open tile
\* returns the stored sample for every matched point off the bottom and
\* right edges of the box, and SEA_LEVEL on those two edges and outside
\* the box.
C6_MatchedPointsOffFarEdgesReadTheirSample ==
    (last.op = "lookup" /\ Cardinality(all_coords) = 1 /\ ReadOpenTile) =>
        /\ InCells(OnlyTile, last.lat, last.lng) =>
              last.result = StoredSample(OnlyTile, last.lat, last.lng)
        /\ ~InCells(OnlyTile, last.lat, last.lng) => last.result = SEA_LEVEL

\* A fractional interior point was looked up and a real elevation came back.
C6_Witness ==
    /\ last.op = "lookup" /\ Cardinality(all_coords) = 1 /\ ~cache_all
    /\ open_interfaces_size >= 1
    /\ last.lat = LatMin(OnlyTile) + 1
    /\ last.lng = LngMin(OnlyTile) + 1
    /\ last.result = Grid(OnlyTile)[RasterYSize - 1][0]
    /\ last.result # SEA_LEVEL

\* ------------------------------------------------ claims: concurrency
\* C8: with lookups run one at a time and capacity N >= 1, a thread never
\* holds a closed tile between acquire and read, and every lookup of a
\* covered point returns the stored sample; without the serialisation a
\* thread can read a tile another thread's acquire has closed and return 0
\* for a point with a real elevation (C8_Witness).
C8_SerializedLookupsReadOpenTiles ==
    (serialized /\ open_interfaces_size >= 1) =>
        \A t \in Threads :
            /\ pc[t] = "acquired" => interfaces[tiface[t]].src
            /\ (pc[t] = "done" /\ ~tout[t].raised) =>
                  /\ ~tout[t].stale
                  /\ tfile[t] # 0 =>
                        tout[t].result = StoredSample(tfile[t], treq[t][1], treq[t][2])

C8_Witness ==
    /\ ~serialized
    /\ open_interfaces_size >= 1
    /\ \E t \in Threads :
          /\ pc[t] = "done"
          /\ tout[t].stale
          /\ tout[t].result = SEA_LEVEL
          /\ tfile[t] # 0
          /\ StoredSample(tfile[t], treq[t][1], treq[t][2]) # SEA_LEVEL
          /\ ~interfaces[tiface[t]].src
          /\ tfile[t] \notin DOMAIN cached_open_interfaces_dict

====
